---- MODULE Spec2Model ----
(***************************************************************************)
(* Model of the inbound-message pipeline of the rental assistant:          *)
(* root_webhook (twilo_backend.py) -> QueryDetection.query                 *)
(* (query_detection.py) -> RentalAgreementQueryEngine.query                *)
(* (query_engine.py) or process_maintenance_request (twilo_backend.py).    *)
(*                                                                         *)
(* One behaviour follows one inbound message through the handler.  Every   *)
(* call to an external collaborator (langdetect, the OpenAI oracles, the   *)
(* media fetch, the file system, the Twilio client) is a step whose        *)
(* outcome is chosen nondeterministically among the outcomes the call can  *)
(* have, failure included.                                                 *)
(*                                                                         *)
(* Python values are modelled as follows.  A str is a TLA+ string, or,     *)
(* where its structure matters, a record with a "kind" field.  A dict is   *)
(* a record that holds every key it may have; ABSENT marks a key the dict  *)
(* does not hold and NULL marks None.                                      *)
(***************************************************************************)
EXTENDS Integers, Sequences, FiniteSets, TLC

\* Largest number of media items attached to a message (NumMedia).
MaxMedia == 3
\* Largest value of the wall clock, in whole seconds since the start.
MaxTime == 1

ABSENT == "<absent>"
NULL == "<null>"
NONE == "<none>"

--------------------------------------------------------------------------
(* models.py: the closed enums *)

TicketCategory ==
    {"plumbing", "electrical", "hvac", "appliance", "structural", "pest",
     "locksmith", "cleaning", "other"}

TicketPriority == {"low", "normal", "high", "emergency"}

TicketStatus ==
    {"new", "assigned", "in_progress", "on_hold", "completed", "cancelled"}

\* str.lower() on the values the oracle is given here.
Lower(s) ==
    CASE s = "Plumbing" -> "plumbing"
      [] s = "HIGH" -> "high"
      [] OTHER -> s

\* Enum member .name.capitalize(): PLUMBING -> "Plumbing".
Capitalized ==
    [c \in TicketCategory \cup TicketPriority |->
        CASE c = "plumbing" -> "Plumbing"
          [] c = "electrical" -> "Electrical"
          [] c = "hvac" -> "Hvac"
          [] c = "appliance" -> "Appliance"
          [] c = "structural" -> "Structural"
          [] c = "pest" -> "Pest"
          [] c = "locksmith" -> "Locksmith"
          [] c = "cleaning" -> "Cleaning"
          [] c = "other" -> "Other"
          [] c = "low" -> "Low"
          [] c = "normal" -> "Normal"
          [] c = "high" -> "High"
          [] c = "emergency" -> "Emergency"]

--------------------------------------------------------------------------
(* The inputs: what the collaborators can hand to the code *)

\* Body after .strip(); the empty body is what a whitespace-only message gives.
Bodies == {"", "sink leaks"}

\* What langdetect.detect does on a text: a language code, or "fail" when it
\* raises (no features in the text: empty, numeric, emoji-only).
DetectOutcomes(body) ==
    IF body = "" THEN {"fail"} ELSE {"en", "es", "hi", "fr", "de", "fail"}

\* Languages with a translation agent.
SupportedLangs == {"es", "hi", "fr"}

Intents == {"question", "maintenance", "status_check", "other"}

\* The description the oracle writes into ticket_data, as lines.
OracleDescription == <<[label |-> "", text |-> "oracle description"]>>

\* ticket_data as the oracle returns it. tag: "dict", or "absent" (no such
\* key), or "null".
NoTicketData(tag) ==
    [tag |-> tag, description |-> <<>>, location |-> ABSENT, symptoms |-> ABSENT,
     category |-> ABSENT, priority |-> ABSENT, apartment_number |-> ABSENT]

RawCategories == {"plumbing", "Plumbing", "roofing", ABSENT, NULL}
RawPriorities == {"high", "HIGH", "urgent", ABSENT, NULL}
RawLocations == {ABSENT, "", "kitchen"}
RawSymptoms == {ABSENT, "", "water on floor"}
RawApartments == {ABSENT, "12B"}

OracleTicketData ==
    [tag : {"dict"}, description : {OracleDescription}, location : RawLocations,
     symptoms : RawSymptoms, category : RawCategories, priority : RawPriorities,
     apartment_number : RawApartments]

SampleTicketData ==
    [tag |-> "dict", description |-> OracleDescription, location |-> "kitchen",
     symptoms |-> "water on floor", category |-> "plumbing", priority |-> "high",
     apartment_number |-> "12B"]

\* What the classification call can produce: it raises, or its content is
\* not JSON, or JSON that is no object, or an object.  An object may lack
\* "intent" or "confidence".  Full variety of ticket_data is drawn for the
\* maintenance intent; the other intents carry none or one sample.
NoOracle ==
    [shape |-> NONE, intent |-> ABSENT, confidence |-> ABSENT,
     ticket_data |-> NoTicketData("absent")]

OracleOutputs ==
    [shape : {"raise", "nonjson", "nonobject"}, intent : {ABSENT},
     confidence : {ABSENT}, ticket_data : {NoTicketData("absent")}]
    \cup
    [shape : {"object"}, intent : {"maintenance"}, confidence : {"0.9"},
     ticket_data : OracleTicketData \cup {NoTicketData("absent"), NoTicketData("null")}]
    \cup
    [shape : {"object"}, intent : (Intents \ {"maintenance"}) \cup {ABSENT},
     confidence : {"0.9", ABSENT},
     ticket_data : {NoTicketData("absent"), SampleTicketData}]

\* Outcome of one awaited oracle call (Runner.run).
CallOutcomes == {"ok", "raise"}

\* Outcome of one media fetch: status 200 and the file saved, another
\* status, or an exception (from requests.get or from saving the file).
FetchOutcomes == {"ok", "status", "exception"}

--------------------------------------------------------------------------
(* Texts and error messages *)

NoText == [kind |-> "none"]

RawText(body) == [kind |-> "raw", body |-> body]

\* The RunResult of a Runner.run call.
RunResult(agent, input) == [kind |-> "run_result", agent |-> agent, input |-> input]

\* str(x) of a value that is no str.
Str(x) == [kind |-> "str", of |-> x]

\* The f-string prompts of the two translation directions.
ToEnglishPrompt(text, lang) == [kind |-> "prompt_to_english", lang |-> lang, text |-> text]
ToLangPrompt(text, lang) == [kind |-> "prompt_to_lang", lang |-> lang, text |-> text]

\* str(e) of the exceptions the steps raise.
ErrLogger == "module 'fastapi.logger' has no attribute 'error'"
ErrTranslate == "translation oracle call failed"
ErrRental == "rental agent call failed"
ErrSynth == "synthesizer call failed"
ErrSend == "twilio send failed"

\* query_detection.py:222
Apology(detail) == [kind |-> "apology", detail |-> detail]

\* twilo_backend.py:277
MaintenanceError == [kind |-> "maintenance_error"]

--------------------------------------------------------------------------
(* Results of a call: a returned value or a raised exception *)

Return(v) == [raised |-> FALSE, value |-> v, error |-> NONE]
Raise(e) == [raised |-> TRUE, value |-> NoText, error |-> e]

\* dict.get(key, default) on a key that may be absent.
Get(v, default) == IF v = ABSENT THEN default ELSE v

--------------------------------------------------------------------------
(* query_detection.py *)

\* `from fastapi import logger` binds the module fastapi.logger, which has
\* the attributes `logging` and `logger` and no attribute `error`.
LoggerHasError == FALSE

\* detect_language: `outcome` is what langdetect.detect did.  On "fail" the
\* handler first calls logger.error, which raises AttributeError out of the
\* handler, so the return of "en" is not reached.
DetectLanguage(outcome) ==
    IF outcome # "fail" THEN [raised |-> FALSE, value |-> outcome, error |-> NONE]
    ELSE IF LoggerHasError THEN [raised |-> FALSE, value |-> "en", error |-> NONE]
    ELSE [raised |-> TRUE, value |-> NONE, error |-> ErrLogger]

\* translate_to_english: no try/except; the RunResult itself is returned.
TranslateToEnglish(text, source_lang, outcome) ==
    IF source_lang = "en" THEN Return(text)
    ELSE IF source_lang \in SupportedLangs
         THEN IF outcome = "ok"
              THEN Return(RunResult("orchestrator", ToEnglishPrompt(text, source_lang)))
              ELSE Raise(ErrTranslate)
         ELSE Return(text)

\* translate_response: no try/except; a RunResult has neither .content nor
\* .response, so the text is str(result).
TranslateResponse(response, target_lang, outcome) ==
    IF target_lang = "en" THEN Return(response)
    ELSE IF target_lang \in SupportedLangs
         THEN IF outcome = "ok"
              THEN Return(Str(RunResult("orchestrator", ToLangPrompt(response, target_lang))))
              ELSE Raise(ErrTranslate)
         ELSE Return(response)

\* Mutant: the except branch falls back to the intent other.
FallbackIntentMutant ==
    [intent |-> "other", confidence |-> "0.5", ticket_data |-> NoTicketData("absent")]

\* The fallback of detect_message_intent's except branch.
FallbackIntent ==
    [intent |-> "question", confidence |-> "0.5", ticket_data |-> NoTicketData("absent")]

\* "\n".join(description_parts) or message
NormalizedDescription(td, message) ==
    LET loc == IF td.location \notin {ABSENT, NULL, ""}
               THEN <<[label |-> "Location", text |-> td.location]>> ELSE <<>>
        sym == IF td.symptoms \notin {ABSENT, NULL, ""}
               THEN <<[label |-> "Issue", text |-> td.symptoms]>> ELSE <<>>
        parts == loc \o sym
    IN  IF parts # <<>> THEN parts
        ELSE IF message = "" THEN <<>>
        ELSE <<[label |-> "", text |-> message]>>

\* TicketCategory(ticket_data.get("category", "other").lower()), ValueError -> OTHER
ValidCategory(raw) ==
    LET v == Lower(Get(raw, "other")) IN IF v \in TicketCategory THEN v ELSE "other"

\* TicketPriority(ticket_data.get("priority", "normal").lower()), ValueError -> NORMAL
ValidPriority(raw) ==
    LET v == Lower(Get(raw, "normal")) IN IF v \in TicketPriority THEN v ELSE "normal"

\* detect_message_intent: `o` is what the oracle call did. Everything that
\* raises inside the try (the call itself, json.loads, result["intent"] on a
\* non-object or without the key, .get on a ticket_data that is no dict,
\* .lower() on a category or priority that is None) ends in the except
\* branch.
DetectMessageIntent(o, message) ==
    IF o.shape # "object" THEN FallbackIntent
    ELSE IF o.intent = ABSENT THEN FallbackIntent
    ELSE IF o.intent = "maintenance" /\ o.ticket_data.tag # "absent"
    THEN IF o.ticket_data.tag # "dict" THEN FallbackIntent
         ELSE IF o.ticket_data.category = NULL THEN FallbackIntent
         ELSE IF o.ticket_data.priority = NULL THEN FallbackIntent
         ELSE [intent |-> o.intent, confidence |-> o.confidence,
               ticket_data |->
                   [o.ticket_data EXCEPT
                      !.description = NormalizedDescription(o.ticket_data, message),
                      !.category = ValidCategory(o.ticket_data.category),
                      !.priority = ValidPriority(o.ticket_data.priority)]]
    ELSE [intent |-> o.intent, confidence |-> o.confidence, ticket_data |-> o.ticket_data]

\* Mutant: the branch compares the intent with a value the classifier never gives.
IsMaintenanceMutant(r) == Get(r.intent, "question") = "maintenance_request"

\* query: intent = intent_result.get("intent", "question"); intent == "maintenance"
IsMaintenance(r) == Get(r.intent, "question") = "maintenance"

NoIntent == [intent |-> ABSENT, confidence |-> ABSENT, ticket_data |-> NoTicketData("absent")]

\* query returns the classifier's dict itself for a maintenance intent.
IntentDict(r) == [kind |-> "intent_dict", result |-> r]

--------------------------------------------------------------------------
(* query_engine.py *)

\* result.final_output of the rental agent on a question.
RentalAnswer(question) == [kind |-> "rental_answer", question |-> question]

\* result.final_output of the synthesizer on a draft.
Synthesized(draft) == [kind |-> "synthesized", draft |-> draft]

\* RentalAgreementQueryEngine.query: the dict it returns when both calls
\* succeed, and the dict of its except branch.
AnswerDict(question, draft) ==
    [kind |-> "answer_dict", original_question |-> question,
     answer |-> Synthesized(draft), detailed_response |-> draft]

ErrorDict(e) == [kind |-> "error_dict", error |-> e]

\* Mutant: the engine lets the exception out instead of returning a dict.
EngineExceptMutant(e) == Raise(e)

\* RentalAgreementQueryEngine.query: `except Exception as e` around both
\* agent calls returns {"error": str(e)}; query_agreement returns it as it is.
EngineExcept(e) == Return(ErrorDict(e))

--------------------------------------------------------------------------
(* twilo_backend.py: process_maintenance_request *)

ErrAttribute == "'NoneType' object has no attribute"

\* normalize_phone_number(from_number) of the one sender of the model.
TenantPhone == "+15105550100"

NoRecord ==
    [ticket_id |-> -1, description |-> <<>>, tenant_phone |-> NONE, category |-> NONE,
     priority |-> NONE, apartment_number |-> NONE, has_images |-> FALSE,
     status |-> NONE, image_paths |-> <<>>]

\* status=TicketStatus.NEW of the database record.
InitialStatus == "new"

\* The category and priority conversion: one try for both, so a ValueError
\* of either sets both defaults; None.lower() is an AttributeError, which
\* that except does not catch.
ConvertTaxonomy(td) ==
    LET cv == Lower(Get(td.category, "other"))
        pv == Lower(Get(td.priority, "normal"))
    IN  IF td.category = NULL THEN Raise(ErrAttribute)
        ELSE IF cv \notin TicketCategory
        THEN Return([category |-> "other", priority |-> "normal"])
        ELSE IF td.priority = NULL THEN Raise(ErrAttribute)
        ELSE IF pv \notin TicketPriority
        THEN Return([category |-> "other", priority |-> "normal"])
        ELSE Return([category |-> cv, priority |-> pv])

\* Mutant: the description is read from ticket_data, with "" as default.
WorkflowDescriptionMutant(td, message) == td.description

\* description = f"Location: {location}\nReported Issue: {symptoms}"
WorkflowDescription(td, message) ==
    <<[label |-> "Location", text |-> Get(td.location, "Not specified")],
      [label |-> "Reported Issue", text |-> Get(td.symptoms, message)]>>

\* The ticket id, the ticket request and the database record, built at
\* time t.  A ticket_data that is None has no .get.
BuildTicket(message, td, n_media, t) ==
    IF td.tag = "null" THEN Raise(ErrAttribute)
    ELSE LET tax == ConvertTaxonomy(td) IN
         IF tax.raised THEN tax
         ELSE Return(
             [ticket_id |-> t,
              description |-> WorkflowDescription(td, message),
              tenant_phone |-> TenantPhone,
              category |-> tax.value.category,
              priority |-> tax.value.priority,
              apartment_number |-> Get(td.apartment_number, NULL),
              has_images |-> n_media > 0,
              status |-> InitialStatus,
              image_paths |-> <<>>])

\* image_path of media item i (counted from 1) of a ticket.
ImagePath(ticket_id, i) == [ticket_id |-> ticket_id, n |-> i]

\* Mutant: the status of the response is not looked at.
AfterFetchMutant(paths, ticket_id, i, outcome) ==
    IF outcome # "exception" THEN Append(paths, ImagePath(ticket_id, i)) ELSE paths

\* One turn of the media loop: the path is appended only on status 200
\* with the file written; any other status and any exception skip the item.
AfterFetch(paths, ticket_id, i, outcome) ==
    IF outcome = "ok" THEN Append(paths, ImagePath(ticket_id, i)) ELSE paths

\* db_record.image_paths = image_paths, inside `if media_urls:`.
WithImages(record, paths, n_media) ==
    IF n_media > 0 THEN [record EXCEPT !.image_paths = paths] ELSE record

PriorityEmoji ==
    [p \in TicketPriority |->
        CASE p = "emergency" -> "alert" [] p = "high" -> "warning"
          [] p = "normal" -> "check" [] p = "low" -> "info"]

\* response_text of a created ticket.
Confirmation(record, n_media) ==
    [kind |-> "confirmation",
     ticket_id |-> record.ticket_id,
     emoji |-> PriorityEmoji[record.priority],
     status |-> "NEW",
     category |-> Capitalized[record.category],
     priority |-> Capitalized[record.priority],
     details |-> record.description,
     images_attached |-> n_media > 0]

\* The ticket store after open(f"tickets/{ticket_id}.json", "w") and json.dump.
Put(st, record) ==
    [k \in DOMAIN st \cup {record.ticket_id} |->
        IF k = record.ticket_id THEN record ELSE st[k]]

\* Mutant: the failure of the write is swallowed and the ticket confirmed.
PersistOutcomeMutant(st, record, n_media, outcome) ==
    IF outcome = "ok"
    THEN [store |-> Put(st, record), text |-> Confirmation(record, n_media)]
    ELSE [store |-> st, text |-> Confirmation(record, n_media)]

\* What the write of the record does: "raise" leaves the store as it was.
PersistOutcome(st, record, n_media, outcome) ==
    IF outcome = "ok"
    THEN [store |-> Put(st, record), text |-> Confirmation(record, n_media)]
    ELSE [store |-> st, text |-> MaintenanceError]

\* root_webhook: isinstance(query_result, dict) and its intent is maintenance.
GoesToWorkflow(result) ==
    /\ result.kind = "intent_dict"
    /\ Get(result.result.intent, ABSENT) = "maintenance"

--------------------------------------------------------------------------
(* State *)

VARIABLES
    pc,               \* where the handler of the message is
    message_body,     \* root_webhook: Body, stripped
    num_media,        \* root_webhook: len(media_urls)
    source_lang,      \* query: detected language
    oracle,           \* detect_message_intent: what the classification call did
    intent_result,    \* query: the classifier's result
    english_question, \* query: the question handed to the engine
    draft,            \* engine: rental_response
    response,         \* query: the answer so far
    query_result,     \* root_webhook: what query returned
    ticket_data,      \* process_maintenance_request: its ticket_data argument
    db_record,        \* process_maintenance_request: the record being created
    image_paths,      \* process_maintenance_request: paths of the saved images
    fetched,          \* outcome of each media fetch so far, in order
    response_text,    \* root_webhook: the reply for the tenant
    http,             \* root_webhook: the HTTP response
    store,            \* the ticket store: ticket id -> record
    now,              \* the last clock reading
    calls,            \* the stages invoked for the message, in order
    failed,           \* the stages whose external call failed
    split_pc,         \* split_long_message and the send loop: where they are
    message,          \* split_long_message: the text, as its paragraphs
    paragraphs,       \* split_long_message: the paragraphs still to be packed
    current_part,     \* split_long_message: the chunk being filled
    parts,            \* split_long_message: the chunks so far
    sent,             \* the chunks handed to the transport, in order
    handler_pc,       \* intake: where each process_maintenance_request call is
    handler_record,   \* intake: db_record of each call
    creations,        \* intake: the ticket files written, in order
    RATE_LIMIT,       \* the rate-limit table: phone number -> count, timestamp
    current_time,     \* the clock check_rate_limit reads
    rate_log          \* the check_rate_limit calls made, in order

webhookVars ==
    <<pc, message_body, num_media, source_lang, oracle, intent_result,
      english_question, draft, response, query_result, ticket_data, db_record,
      image_paths, fetched, response_text, http, calls, failed>>

splitVars == <<split_pc, message, paragraphs, current_part, parts, sent>>
intakeVars == <<handler_pc, handler_record, creations>>
rateVars == <<RATE_LIMIT, current_time, rate_log>>

vars == <<webhookVars, store, now, splitVars, intakeVars, rateVars>>

queryLocals == <<source_lang, oracle, intent_result, english_question, draft, response>>
workflowLocals == <<ticket_data, db_record, image_paths, fetched>>

NoHttp == [status |-> 0, body |-> NoText]

\* The state before the webhook has received anything.
WebhookIdle ==
    /\ pc = "receive"
    /\ message_body = NONE
    /\ num_media = 0
    /\ source_lang = NONE
    /\ oracle = NoOracle
    /\ intent_result = NoIntent
    /\ english_question = NoText
    /\ draft = NoText
    /\ response = NoText
    /\ query_result = NoText
    /\ ticket_data = NoTicketData("absent")
    /\ db_record = NoRecord
    /\ image_paths = <<>>
    /\ fetched = <<>>
    /\ response_text = NoText
    /\ http = NoHttp
    /\ calls = <<>>
    /\ failed = {}

\* split_long_message has not been called.
SplitIdle ==
    /\ split_pc = "idle"
    /\ message = <<>>
    /\ paragraphs = <<>>
    /\ current_part = <<>>
    /\ parts = <<>>
    /\ sent = <<>>

\* No process_maintenance_request call is under way.
IntakeIdle ==
    /\ handler_pc = [h \in {} |-> "idle"]
    /\ handler_record = [h \in {} |-> NoRecord]
    /\ creations = <<>>

\* RATE_LIMIT = {} at module load.
RateIdle ==
    /\ RATE_LIMIT = [n \in {} |-> [count |-> 0, timestamp |-> 0]]
    /\ current_time = 0
    /\ rate_log = <<>>

Init ==
    /\ WebhookIdle
    /\ store = [k \in {} |-> NoRecord]
    /\ now = 0
    /\ SplitIdle
    /\ IntakeIdle
    /\ RateIdle

--------------------------------------------------------------------------
(* Actions: root_webhook and QueryDetection.query *)

\* root_webhook: the form fields of the inbound message are read.
Receive ==
    /\ pc = "receive"
    /\ UNCHANGED <<splitVars, intakeVars, rateVars>>
    /\ \E b \in Bodies, n \in 0..MaxMedia :
          /\ message_body' = b
          /\ num_media' = n
    /\ pc' = "detect"
    /\ UNCHANGED <<queryLocals, query_result, workflowLocals, response_text, http,
                   store, now, calls, failed>>

\* query: source_lang = await cls.detect_language(question); an exception
\* leaves query through its except branch.
Detect ==
    /\ pc = "detect"
    /\ UNCHANGED <<splitVars, intakeVars, rateVars>>
    /\ \E o \in DetectOutcomes(message_body) :
          LET r == DetectLanguage(o) IN
          /\ failed' = IF o = "fail" THEN failed \cup {"detect"} ELSE failed
          /\ IF r.raised
             THEN /\ query_result' = Apology(r.error)
                  /\ pc' = "route"
                  /\ UNCHANGED source_lang
             ELSE /\ source_lang' = r.value
                  /\ pc' = "classify"
                  /\ UNCHANGED query_result
    /\ calls' = Append(calls, "detect")
    /\ UNCHANGED <<message_body, num_media, oracle, intent_result, english_question,
                   draft, response, workflowLocals, response_text, http, store, now>>

\* query: intent_result = await cls.detect_message_intent(question), and the
\* branch on the intent: a maintenance result is returned as it is.
Classify ==
    /\ pc = "classify"
    /\ UNCHANGED <<splitVars, intakeVars, rateVars>>
    /\ \E o \in OracleOutputs :
          LET r == DetectMessageIntent(o, message_body) IN
          /\ oracle' = o
          /\ intent_result' = r
          /\ failed' = IF o.shape # "object" THEN failed \cup {"classify"} ELSE failed
          /\ IF IsMaintenance(r)
             THEN /\ query_result' = IntentDict(r)
                  /\ pc' = "route"
             ELSE /\ pc' = "to_pivot"
                  /\ UNCHANGED query_result
    /\ calls' = Append(calls, "classify")
    /\ UNCHANGED <<message_body, num_media, source_lang, english_question, draft,
                   response, workflowLocals, response_text, http, store, now>>

\* query: english_question = question, translated when source_lang != "en".
ToPivot ==
    /\ pc = "to_pivot"
    /\ UNCHANGED <<splitVars, intakeVars, rateVars>>
    /\ \E out \in CallOutcomes :
          LET r == TranslateToEnglish(RawText(message_body), source_lang, out) IN
          /\ failed' = IF r.raised THEN failed \cup {"to_pivot"} ELSE failed
          /\ IF r.raised
             THEN /\ query_result' = Apology(r.error)
                  /\ pc' = "route"
                  /\ UNCHANGED english_question
             ELSE /\ english_question' = r.value
                  /\ pc' = "engine"
                  /\ UNCHANGED query_result
    /\ calls' = IF source_lang # "en" THEN Append(calls, "to_pivot") ELSE calls
    /\ UNCHANGED <<message_body, num_media, source_lang, oracle, intent_result, draft,
                   response, workflowLocals, response_text, http, store, now>>

\* query -> search_local_documents -> query_agreement -> engine.query, step 1:
\* the rental agent. When it raises the engine returns {"error": ...}, which
\* query turns into str(dict).
EngineRental ==
    /\ pc = "engine"
    /\ UNCHANGED <<splitVars, intakeVars, rateVars>>
    /\ \E out \in CallOutcomes :
          IF out = "ok"
          THEN /\ draft' = RentalAnswer(english_question)
               /\ pc' = "synth"
               /\ UNCHANGED <<response, failed, query_result>>
          ELSE LET r == EngineExcept(ErrRental) IN
               /\ failed' = failed \cup {"rental"}
               /\ UNCHANGED draft
               /\ IF r.raised
                  THEN /\ query_result' = Apology(r.error)
                       /\ pc' = "route"
                       /\ UNCHANGED response
                  ELSE /\ response' = Str(r.value)
                       /\ pc' = "from_pivot"
                       /\ UNCHANGED query_result
    /\ calls' = Append(calls, "engine")
    /\ UNCHANGED <<message_body, num_media, source_lang, oracle, intent_result,
                   english_question, workflowLocals, response_text, http, store, now>>

\* engine.query, step 2: the synthesizer on the rental agent's answer, inside
\* the same try.
EngineSynth ==
    /\ pc = "synth"
    /\ UNCHANGED <<splitVars, intakeVars, rateVars>>
    /\ \E out \in CallOutcomes :
          IF out = "ok"
          THEN /\ response' = Str(AnswerDict(english_question, draft))
               /\ pc' = "from_pivot"
               /\ UNCHANGED <<failed, query_result>>
          ELSE LET r == EngineExcept(ErrSynth) IN
               /\ failed' = failed \cup {"synth"}
               /\ IF r.raised
                  THEN /\ query_result' = Apology(r.error)
                       /\ pc' = "route"
                       /\ UNCHANGED response
                  ELSE /\ response' = Str(r.value)
                       /\ pc' = "from_pivot"
                       /\ UNCHANGED query_result
    /\ calls' = Append(calls, "synth")
    /\ UNCHANGED <<message_body, num_media, source_lang, oracle, intent_result,
                   english_question, draft, workflowLocals, response_text, http,
                   store, now>>

\* query: response translated back when source_lang != "en", and returned.
FromPivot ==
    /\ pc = "from_pivot"
    /\ UNCHANGED <<splitVars, intakeVars, rateVars>>
    /\ \E out \in CallOutcomes :
          LET r == TranslateResponse(response, source_lang, out) IN
          /\ failed' = IF r.raised THEN failed \cup {"from_pivot"} ELSE failed
          /\ query_result' = IF r.raised THEN Apology(r.error) ELSE r.value
    /\ pc' = "route"
    /\ calls' = IF source_lang # "en" THEN Append(calls, "from_pivot") ELSE calls
    /\ UNCHANGED <<message_body, num_media, source_lang, oracle, intent_result,
                   english_question, draft, response, workflowLocals, response_text,
                   http, store, now>>

\* root_webhook: a dict with intent maintenance goes to the ticket workflow
\* with query_result.get("ticket_data", {}); a str is the reply. The raw
\* content of the classification response is kept until query has returned.
Route ==
    /\ pc = "route"
    /\ UNCHANGED <<splitVars, intakeVars, rateVars>>
    /\ IF GoesToWorkflow(query_result)
       THEN /\ ticket_data' = query_result.result.ticket_data
            /\ calls' = Append(calls, "ticket")
            /\ pc' = "ticket"
            /\ UNCHANGED response_text
       ELSE /\ response_text' = query_result
            /\ pc' = "send"
            /\ UNCHANGED <<ticket_data, calls>>
    /\ oracle' = NoOracle
    /\ UNCHANGED <<source_lang, intent_result, english_question, draft, response>>
    /\ UNCHANGED <<message_body, num_media, query_result, db_record, image_paths,
                   fetched, http, store, now, failed>>

\* process_maintenance_request up to the database record: the clock is read
\* for the ticket id. An exception ends in the except branch of the function.
TicketStart ==
    /\ pc = "ticket"
    /\ UNCHANGED <<splitVars, intakeVars, rateVars>>
    /\ \E t \in now..MaxTime :
          LET r == BuildTicket(message_body, ticket_data, num_media, t) IN
          /\ now' = t
          /\ IF r.raised
             THEN /\ response_text' = MaintenanceError
                  /\ pc' = "send"
                  /\ UNCHANGED db_record
             ELSE /\ db_record' = r.value
                  /\ pc' = IF num_media > 0 THEN "media" ELSE "persist"
                  /\ UNCHANGED response_text
    /\ UNCHANGED <<message_body, num_media, queryLocals, query_result, ticket_data,
                   image_paths, fetched, http, store, calls, failed>>

\* One turn of `for i, url in enumerate(media_urls)`.
FetchMedia ==
    /\ pc = "media"
    /\ UNCHANGED <<splitVars, intakeVars, rateVars>>
    /\ Len(fetched) < num_media
    /\ \E out \in FetchOutcomes :
          /\ fetched' = Append(fetched, out)
          /\ image_paths' =
                AfterFetch(image_paths, db_record.ticket_id, Len(fetched) + 1, out)
          /\ failed' = IF out # "ok" THEN failed \cup {"fetch"} ELSE failed
    /\ pc' = IF Len(fetched) + 1 = num_media THEN "persist" ELSE "media"
    /\ UNCHANGED <<message_body, num_media, queryLocals, query_result, ticket_data,
                   db_record, response_text, http, store, now, calls>>

\* The record gets its image paths and is written to the store; then the
\* confirmation is rendered. A failing write ends in the except branch.
Persist ==
    /\ pc = "persist"
    /\ UNCHANGED <<splitVars, intakeVars, rateVars>>
    /\ \E out \in CallOutcomes :
          LET record == WithImages(db_record, image_paths, num_media)
              r == PersistOutcome(store, record, num_media, out)
          IN  /\ db_record' = record
              /\ store' = r.store
              /\ response_text' = r.text
              /\ failed' = IF out # "ok" THEN failed \cup {"persist"} ELSE failed
    /\ pc' = "send"
    /\ UNCHANGED <<message_body, num_media, queryLocals, query_result, ticket_data,
                   image_paths, fetched, http, now, calls>>

\* root_webhook: the reply is handed to the transport; a failure there ends
\* in the except branch of root_webhook.
Send ==
    /\ pc = "send"
    /\ UNCHANGED <<splitVars, intakeVars, rateVars>>
    /\ \E out \in CallOutcomes :
          IF out = "ok"
          THEN /\ http' = [status |-> 200, body |-> response_text]
               /\ UNCHANGED failed
          ELSE /\ http' = [status |-> 500,
                           body |-> [kind |-> "request_error", detail |-> ErrSend]]
               /\ failed' = failed \cup {"send"}
    /\ pc' = "done"
    /\ UNCHANGED <<message_body, num_media, queryLocals, query_result, workflowLocals,
                   response_text, store, now, calls>>

Next ==
    \/ Receive
    \/ Detect
    \/ Classify
    \/ ToPivot
    \/ EngineRental
    \/ EngineSynth
    \/ FromPivot
    \/ Route
    \/ TicketStart
    \/ FetchMedia
    \/ Persist
    \/ Send

Spec == Init /\ [][Next]_vars

--------------------------------------------------------------------------
(* split_long_message and the send loop of root_webhook.  A text is the
   sequence of its paragraphs (what message.split('\n\n') yields), each given
   by its length; a paragraph of length 0 is the empty string, any other one
   begins and ends with a character that is not whitespace. *)

\* split_long_message(message, limit=1500): root_webhook uses the default.
Limit == 1500

MaxParagraphs == 4

ParagraphLens == {0, 1, 740, 750, 1499, 1600}

Texts == UNION {[1..n -> ParagraphLens] : n \in 1..MaxParagraphs}

RECURSIVE Sum(_)
Sum(seq) == IF seq = <<>> THEN 0 ELSE Head(seq) + Sum(Tail(seq))

\* len('\n\n'.join(ps))
JoinedLen(ps) == IF ps = <<>> THEN 0 ELSE Sum(ps) + 2 * (Len(ps) - 1)

\* len(current_part): every paragraph in it is followed by '\n\n'.
CurrentLen(ps) == Sum(ps) + 2 * Len(ps)

RECURSIVE LStrip(_)
LStrip(ps) == IF ps # <<>> /\ Head(ps) = 0 THEN LStrip(Tail(ps)) ELSE ps

RECURSIVE RStrip(_)
RStrip(ps) ==
    IF ps # <<>> /\ ps[Len(ps)] = 0 THEN RStrip(SubSeq(ps, 1, Len(ps) - 1)) ELSE ps

\* current_part.strip(): the trailing '\n\n' and the empty paragraphs at
\* either end go; what is left is the other paragraphs joined by '\n\n'.
Strip(ps) == RStrip(LStrip(ps))

NoHeader == <<>>

Chunk(header, body) == [header |-> header, body |-> body]

Digits(n) == IF n < 10 THEN 1 ELSE 2

\* len(f"Part {i}/{n}:\n")
HeaderLen(header) ==
    IF header = NoHeader THEN 0 ELSE 8 + Digits(header[1]) + Digits(header[2])

ChunkLen(chunk) == HeaderLen(chunk.header) + JoinedLen(chunk.body)

\* Mutant: a full chunk is thrown away instead of being appended.
PackParagraphMutant(st, paragraph) ==
    IF CurrentLen(st.current_part) + paragraph + 2 <= Limit
    THEN [parts |-> st.parts, current_part |-> Append(st.current_part, paragraph)]
    ELSE [parts |-> st.parts, current_part |-> <<paragraph>>]

\* One turn of the loop over the paragraphs.
PackParagraph(st, paragraph) ==
    IF CurrentLen(st.current_part) + paragraph + 2 <= Limit
    THEN [parts |-> st.parts, current_part |-> Append(st.current_part, paragraph)]
    ELSE [parts |-> IF st.current_part # <<>>
                    THEN Append(st.parts, Chunk(NoHeader, Strip(st.current_part)))
                    ELSE st.parts,
          current_part |-> <<paragraph>>]

\* The "Part i/N:" headers, added when there is more than one chunk.
Numbered(ps) ==
    IF Len(ps) > 1
    THEN [i \in 1..Len(ps) |-> Chunk(<<i, Len(ps)>>, ps[i].body)]
    ELSE ps

SplitStart ==
    /\ split_pc = "start"
    /\ IF JoinedLen(message) <= Limit
       THEN /\ parts' = <<Chunk(NoHeader, message)>>
            /\ split_pc' = "send"
            /\ UNCHANGED paragraphs
       ELSE /\ parts' = <<>>
            /\ paragraphs' = message
            /\ split_pc' = "loop"
    /\ UNCHANGED <<message, current_part, sent>>
    /\ UNCHANGED <<webhookVars, store, now, intakeVars, rateVars>>

SplitParagraph ==
    /\ split_pc = "loop"
    /\ paragraphs # <<>>
    /\ LET st == PackParagraph([parts |-> parts, current_part |-> current_part],
                               Head(paragraphs)) IN
          /\ parts' = st.parts
          /\ current_part' = st.current_part
    /\ paragraphs' = Tail(paragraphs)
    /\ UNCHANGED <<split_pc, message, sent>>
    /\ UNCHANGED <<webhookVars, store, now, intakeVars, rateVars>>

SplitFinish ==
    /\ split_pc = "loop"
    /\ paragraphs = <<>>
    /\ parts' = Numbered(IF current_part # <<>>
                         THEN Append(parts, Chunk(NoHeader, Strip(current_part)))
                         ELSE parts)
    /\ split_pc' = "send"
    /\ UNCHANGED <<message, paragraphs, current_part, sent>>
    /\ UNCHANGED <<webhookVars, store, now, intakeVars, rateVars>>

\* root_webhook: one turn of the loop that sends the parts.
SendPart ==
    /\ split_pc = "send"
    /\ Len(sent) < Len(parts)
    /\ sent' = Append(sent, parts[Len(sent) + 1])
    /\ split_pc' = IF Len(sent) + 1 = Len(parts) THEN "done" ELSE "send"
    /\ UNCHANGED <<message, paragraphs, current_part, parts>>
    /\ UNCHANGED <<webhookVars, store, now, intakeVars, rateVars>>

InitSplit ==
    /\ WebhookIdle
    /\ store = [k \in {} |-> NoRecord]
    /\ now = 0
    /\ IntakeIdle
    /\ RateIdle
    /\ split_pc = "start"
    /\ message \in Texts
    /\ paragraphs = <<>>
    /\ current_part = <<>>
    /\ parts = <<>>
    /\ sent = <<>>

NextSplit ==
    \/ SplitStart
    \/ SplitParagraph
    \/ SplitFinish
    \/ SendPart

SpecSplit == InitSplit /\ [][NextSplit]_vars

--------------------------------------------------------------------------
(* Ticket intake under several process_maintenance_request calls: each call
   reads the clock for its ticket id and later writes tickets/<id>.json; the
   calls share the clock and the ticket store. *)

MaxHandlers == 2

MaxCreations == 3

Handlers == 1..MaxHandlers

\* The ticket_data of the calls: they differ in the apartment.
IntakeTicketData ==
    {[SampleTicketData EXCEPT !.apartment_number = a] : a \in {"12B", "3A"}}

\* What a write leaves in the log: the id, the caller, and whether a file of
\* that id was there already.
Creation(h, record, st) ==
    [ticket_id |-> record.ticket_id, handler |-> h,
     replaced |-> record.ticket_id \in DOMAIN st]

\* A call starts: ticket id from the clock, ticket request and db_record.
IntakeStamp(h) ==
    /\ handler_pc[h] = "idle"
    /\ Len(creations) + Cardinality({g \in Handlers : handler_pc[g] = "write"})
          < MaxCreations
    /\ \E t \in now..MaxTime, td \in IntakeTicketData :
          LET r == BuildTicket("sink leaks", td, 0, t) IN
          /\ ~r.raised
          /\ now' = t
          /\ handler_record' = [handler_record EXCEPT ![h] = r.value]
    /\ handler_pc' = [handler_pc EXCEPT ![h] = "write"]
    /\ UNCHANGED <<store, creations>>
    /\ UNCHANGED <<webhookVars, splitVars, rateVars>>

\* The call writes its record; a failed write leaves the store as it was.
IntakeWrite(h) ==
    /\ handler_pc[h] = "write"
    /\ \E out \in CallOutcomes :
          LET r == PersistOutcome(store, handler_record[h], 0, out) IN
          /\ store' = r.store
          /\ creations' = IF out = "ok"
                          THEN Append(creations, Creation(h, handler_record[h], store))
                          ELSE creations
    /\ handler_pc' = [handler_pc EXCEPT ![h] = "idle"]
    /\ UNCHANGED <<now, handler_record>>
    /\ UNCHANGED <<webhookVars, splitVars, rateVars>>

InitIntake ==
    /\ WebhookIdle
    /\ store = [k \in {} |-> NoRecord]
    /\ now = 0
    /\ SplitIdle
    /\ RateIdle
    /\ handler_pc = [h \in Handlers |-> "idle"]
    /\ handler_record = [h \in Handlers |-> NoRecord]
    /\ creations = <<>>

NextIntake ==
    \/ \E h \in Handlers : IntakeStamp(h)
    \/ \E h \in Handlers : IntakeWrite(h)

SpecIntake == InitIntake /\ [][NextIntake]_vars

--------------------------------------------------------------------------
(* check_rate_limit and the RATE_LIMIT table.  Time is in whole seconds. *)

MAX_REQUESTS == 10

TIME_WINDOW == 60 * 10

\* The count a new entry of the table starts with.
InitialCount == 100

MaxRateCalls == 4

\* The clock moves by half a window, or a second more than that.
ClockLeaps == {TIME_WINDOW \div 2, TIME_WINDOW \div 2 + 1}

MaxRateTime == 2 * TIME_WINDOW + 2

RatePhones == {TenantPhone, "+15105550101"}

\* "Clean up old entries": the entries older than the window are deleted.
CleanUp(table, t) ==
    [n \in {m \in DOMAIN table : ~(t - table[m].timestamp > TIME_WINDOW)} |-> table[n]]

\* check_rate_limit(phone_number) at time t: the table it leaves, and whether
\* it raised HTTPException 429.
CheckRateLimitResult(table, phone_number, t) ==
    LET kept == CleanUp(table, t) IN
    IF phone_number \notin DOMAIN kept
    THEN [table |-> [n \in DOMAIN kept \cup {phone_number} |->
                        IF n = phone_number
                        THEN [count |-> InitialCount, timestamp |-> t]
                        ELSE kept[n]],
          raised |-> FALSE]
    ELSE IF kept[phone_number].count >= MAX_REQUESTS
    THEN [table |-> kept, raised |-> TRUE]
    ELSE [table |-> [kept EXCEPT ![phone_number].count = @ + 1], raised |-> FALSE]

CheckRateLimit(phone_number) ==
    /\ Len(rate_log) < MaxRateCalls
    /\ LET r == CheckRateLimitResult(RATE_LIMIT, phone_number, current_time) IN
          /\ RATE_LIMIT' = r.table
          /\ rate_log' = Append(rate_log, [phone_number |-> phone_number,
                                           time |-> current_time,
                                           raised |-> r.raised])
    /\ UNCHANGED current_time
    /\ UNCHANGED <<webhookVars, store, now, splitVars, intakeVars>>

\* Time passes between two calls.
ClockAdvance ==
    /\ \E d \in ClockLeaps :
          /\ current_time + d <= MaxRateTime
          /\ current_time' = current_time + d
    /\ UNCHANGED <<RATE_LIMIT, rate_log>>
    /\ UNCHANGED <<webhookVars, store, now, splitVars, intakeVars>>

InitRate ==
    /\ WebhookIdle
    /\ store = [k \in {} |-> NoRecord]
    /\ now = 0
    /\ SplitIdle
    /\ IntakeIdle
    /\ RateIdle

NextRate ==
    \/ \E n \in RatePhones : CheckRateLimit(n)
    \/ ClockAdvance

SpecRate == InitRate /\ [][NextRate]_vars

--------------------------------------------------------------------------
(* Properties *)

Range(seq) == {seq[k] : k \in 1..Len(seq)}

Count(seq, x) == Cardinality({k \in 1..Len(seq) : seq[k] = x})

AnswerStages == {"to_pivot", "engine", "synth", "from_pivot"}

IsAnswerStage(s) == s \in AnswerStages

\* query has returned and root_webhook has not yet looked at the result.
QueryReturned == pc = "route"

\* The message was classified and the classifier's intent is maintenance.
ClassifiedMaintenance ==
    "classify" \in Range(calls) /\ intent_result.intent = "maintenance"

\* C1: for a message detected as es, hi or fr and classified as something
\* other than maintenance, when query returns the stages invoked were
\* to-pivot translation, the document query engine, the synthesizer and
\* from-pivot translation, each once and in that order, and the returned
\* text is the output of the from-pivot translation of the answer.
C1_AnswerPipelineInOrder ==
    (/\ QueryReturned
     /\ source_lang \in SupportedLangs
     /\ "classify" \in Range(calls)
     /\ intent_result.intent # "maintenance")
    => /\ SelectSeq(calls, IsAnswerStage) = <<"to_pivot", "engine", "synth", "from_pivot">>
       /\ query_result = TranslateResponse(response, source_lang, "ok").value

\* C2: for a message classified as maintenance, whatever the detected
\* language, no translation, no document query and no synthesis is ever
\* invoked; the ticket workflow is invoked at most once, exactly once from
\* the moment root_webhook has dispatched the result, and the reply is what
\* the workflow returned: the confirmation of the record it created, or its
\* error message.
C2_MaintenanceBypassesAnswerPipeline ==
    ClassifiedMaintenance
    => /\ Range(calls) \cap AnswerStages = {}
       /\ Count(calls, "ticket") = (IF pc \in {"classify", "route"} THEN 0 ELSE 1)
       /\ pc \in {"route", "ticket", "media", "persist", "send", "done"}
       /\ pc \in {"send", "done"} =>
             \/ response_text = Confirmation(db_record, num_media)
             \/ response_text = MaintenanceError

C2_Witness ==
    /\ ClassifiedMaintenance
    /\ source_lang = "es"
    /\ pc = "done"
    /\ response_text.kind = "confirmation"
    /\ http.status = 200
    /\ http.body = response_text

\* C3: a reply that is the router's apology is one fixed sentence: it
\* carries no text of the exception that was caught, and neither does the
\* body of the HTTP response of root_webhook's own except branch.
C3_ApologyCarriesNoErrorText ==
    /\ response_text.kind = "apology" => response_text.detail = ""
    /\ http.body.kind = "request_error" => http.body.detail = ""

\* The classification call failed or its content is not an object with an
\* "intent" key.
Unparseable(o) ==
    \/ o.shape \in {"raise", "nonjson", "nonobject"}
    \/ o.shape = "object" /\ o.intent = ABSENT

\* C4: when the classification oracle fails or its output cannot be parsed
\* as the expected structure, the classifier returns intent question with
\* confidence 0.5 and no ticket_data, and the router goes down the
\* document-query branch: the next stage is the to-pivot translation, and
\* the ticket workflow is not what query returns to.
C4_UnparseableFallsBackToQuestion ==
    Unparseable(oracle)
    => /\ intent_result.intent = "question"
       /\ intent_result.confidence = "0.5"
       /\ intent_result.ticket_data.tag = "absent"
       /\ pc \in {"to_pivot", "engine", "synth", "from_pivot", "route"}
       /\ pc = "route" => ~GoesToWorkflow(query_result)
       /\ pc \in {"synth", "from_pivot", "route"} =>
             ("engine" \in Range(calls) \/ "to_pivot" \in failed)

C4_Witness ==
    /\ oracle.shape = "nonjson"
    /\ pc = "route"
    /\ "engine" \in Range(calls)
    /\ query_result.kind = "str"

\* A text of labelled lines is the empty string.
IsEmptyText(lines) ==
    \/ lines = <<>>
    \/ Len(lines) = 1 /\ lines[1].label = "" /\ lines[1].text = ""

\* C5: every record in the ticket store has status new, a description that
\* is not the empty string, and a category and a priority of the closed
\* enums.
C5_StoredTicketWellFormed ==
    \A id \in DOMAIN store :
        /\ store[id].status = "new"
        /\ ~IsEmptyText(store[id].description)
        /\ store[id].category \in TicketCategory
        /\ store[id].priority \in TicketPriority

\* A ticket was stored for a maintenance result that carried no ticket_data.
C5_Witness ==
    /\ ClassifiedMaintenance
    /\ intent_result.ticket_data.tag = "absent"
    /\ DOMAIN store # {}
    /\ \A id \in DOMAIN store : store[id].category = "other" /\ store[id].priority = "normal"

\* The enum member a raw taxonomy value stands for, or the default.
Coerced(raw, enum, default) ==
    IF raw \notin {ABSENT, NULL} /\ Lower(raw) \in enum THEN Lower(raw) ELSE default

\* C6: for every oracle output with intent maintenance that carries
\* ticket_data, the classifier returns intent maintenance, with the category
\* replaced by other when it is no member of the enum (unrecognized, missing
\* or null) and the priority by normal, each independently of the other.
C6_TaxonomyCoercedNeverBlocks ==
    (/\ oracle.shape = "object"
     /\ oracle.intent = "maintenance"
     /\ oracle.ticket_data.tag = "dict")
    => /\ intent_result.intent = "maintenance"
       /\ intent_result.ticket_data.category =
             Coerced(oracle.ticket_data.category, TicketCategory, "other")
       /\ intent_result.ticket_data.priority =
             Coerced(oracle.ticket_data.priority, TicketPriority, "normal")

\* C7: a confirmation is the reply only when the record with the ticket id
\* it carries is in the store, written by this creation; when the write
\* fails the reply is the workflow's error message, not a confirmation.
C7_ConfirmationOnlyAfterWrite ==
    /\ response_text.kind = "confirmation" =>
          /\ response_text.ticket_id \in DOMAIN store
          /\ store[response_text.ticket_id] = db_record
          /\ db_record.ticket_id = response_text.ticket_id
          /\ "persist" \notin failed
    /\ "persist" \in failed =>
          /\ pc \in {"send", "done"}
          /\ response_text = MaintenanceError

C7_Witness ==
    /\ "persist" \in failed
    /\ pc = "done"
    /\ http.status = 200
    /\ http.body = MaintenanceError

\* The paths of the items whose fetch succeeded, in the order of the items.
RECURSIVE ExpectedPaths(_, _, _)
ExpectedPaths(outcomes, ticket_id, k) ==
    IF k > Len(outcomes) THEN <<>>
    ELSE (IF outcomes[k] = "ok" THEN <<ImagePath(ticket_id, k)>> ELSE <<>>)
         \o ExpectedPaths(outcomes, ticket_id, k + 1)

\* C8: whatever subset of the media fetches fails, once the record is built
\* the creation is confirmed unless the write of the record fails, and the
\* stored record's image_paths holds one entry per item fetched
\* successfully, in the order of the items.
C8_FailedFetchesAreSkipped ==
    (/\ pc \in {"send", "done"}
     /\ num_media > 0
     /\ db_record # NoRecord
     /\ "persist" \notin failed)
    => /\ response_text.kind = "confirmation"
       /\ Len(fetched) = num_media
       /\ db_record.ticket_id \in DOMAIN store
       /\ store[db_record.ticket_id].image_paths =
             ExpectedPaths(fetched, db_record.ticket_id, 1)

\* One fetch among three failed: two entries.
C8_Witness ==
    /\ pc = "done"
    /\ num_media = 3
    /\ fetched = <<"ok", "exception", "ok">>
    /\ response_text.kind = "confirmation"
    /\ db_record.ticket_id \in DOMAIN store
    /\ Len(store[db_record.ticket_id].image_paths) = 2

\* C9: when langdetect fails on the message, detect_language returns "en"
\* and the router goes on to intent classification.
C9_DetectionFailureDefaultsToPivot ==
    ("detect" \in failed /\ Len(calls) = 1)
    => /\ pc = "classify"
       /\ source_lang = "en"

\* C10: a failed translation call, in either direction, passes its input
\* through and query returns an answer, not the apology.
C10_TranslationFailurePassesThrough ==
    /\ "to_pivot" \in failed =>
          /\ pc # "route" \/ "engine" \in Range(calls)
          /\ english_question = RawText(message_body)
    /\ (QueryReturned /\ failed \cap {"to_pivot", "from_pivot"} # {}) =>
          query_result.kind # "apology"

\* C11: when the synthesizer call fails after the rental agent produced a
\* draft, the answer that goes on to the from-pivot translation and to the
\* tenant is that draft, unchanged.
C11_SynthesisFailureKeepsDraft ==
    ("synth" \in failed /\ pc \in {"from_pivot", "route"})
    => /\ draft # NoText
       /\ response = draft \/ (response.kind = "str" /\ response.of.kind = "answer_dict"
                                /\ response.of.answer = draft)

\* The engine's call of the rental agent or of the synthesizer failed.
EngineFailed == failed \cap {"rental", "synth"} # {}

\* C12: a failure inside the document query engine never raises out of it:
\* the engine returns its error dict, whose text is what query carries on
\* with; query then returns the from-pivot translation of that text, and
\* returns the apology only when a translation call itself failed.
C12_EngineFailureIsAnAnswer ==
    EngineFailed
    => /\ pc \in {"from_pivot", "route", "send", "done"}
       /\ response.kind = "str"
       /\ response.of.kind = "error_dict"
       /\ response.of.error \in {ErrRental, ErrSynth}
       /\ response.of.error # ""
       /\ pc # "from_pivot" =>
             IF failed \cap {"to_pivot", "from_pivot"} = {}
             THEN query_result = TranslateResponse(response, source_lang, "ok").value
             ELSE query_result.kind = "apology"
       /\ (pc # "from_pivot" /\ source_lang \notin SupportedLangs) => query_result = response

C12_Witness ==
    /\ "rental" \in failed
    /\ source_lang = "en"
    /\ pc = "done"
    /\ response_text = Str(ErrorDict(ErrRental))
    /\ http.body = response_text

\* C13: once the message is classified, the classifier's result holds
\* ticket_data if and only if its intent is maintenance.
C13_TicketDataIffMaintenance ==
    "classify" \in Range(calls)
    => (intent_result.ticket_data.tag # "absent" <=> intent_result.intent = "maintenance")

\* A ticket was created and its confirmation rendered.
TicketConfirmed == response_text.kind = "confirmation"

\* Whether a confirmation shows a given text: in one of its fields or in a
\* line of its details.
Shows(text, x) ==
    \/ x \in {text.emoji, text.status, text.category, text.priority}
    \/ \E k \in 1..Len(text.details) : text.details[k].text = x

\* C17: the confirmation of a ticket created from ticket data with an
\* apartment number carries the ticket id, the capitalized category name and
\* that apartment number.
C17_ConfirmationNamesApartment ==
    (TicketConfirmed /\ ticket_data.apartment_number \notin {ABSENT, NULL})
    => /\ response_text.ticket_id = db_record.ticket_id
       /\ response_text.category = Capitalized[db_record.category]
       /\ Shows(response_text, ticket_data.apartment_number)

\* C18: the description of a created ticket, in the store and in the
\* confirmation, is the classifier's normalized description.
C18_DescriptionIsNormalized ==
    (TicketConfirmed /\ ticket_data.tag = "dict")
    => /\ store[db_record.ticket_id].description = ticket_data.description
       /\ response_text.details = ticket_data.description

RECURSIVE Flatten(_)
Flatten(chunks) ==
    IF chunks = <<>> THEN <<>> ELSE Head(chunks).body \o Flatten(Tail(chunks))

\* Whitespace normalization: the empty paragraphs go.
Words(ps) == SelectSeq(ps, LAMBDA n : n # 0)

EachParagraphShort == \A k \in 1..Len(message) : message[k] < Limit

SplitReturned == split_pc \in {"send", "done"}

\* C14: for a text longer than the limit whose paragraphs are each shorter
\* than the limit, the chunks, taken in order without their headers and with
\* whitespace normalized, are the text: no paragraph is dropped or moved, and
\* the headers count the chunks in order.
C14_ChunksKeepContent ==
    (SplitReturned /\ JoinedLen(message) > Limit /\ EachParagraphShort)
    => /\ Words(Flatten(parts)) = Words(message)
       /\ Len(parts) > 1
       /\ \A i \in 1..Len(parts) : parts[i].header = <<i, Len(parts)>>
       /\ split_pc = "done" => sent = parts

C14_Witness ==
    /\ split_pc = "done"
    /\ JoinedLen(message) > Limit
    /\ EachParagraphShort
    /\ \E k \in 1..Len(message) : message[k] = 0
    /\ Len(sent) = 3
    /\ \E i \in 1..Len(sent) : Len(sent[i].body) > 1

\* C15: for a text whose paragraphs are each shorter than the limit, every
\* chunk handed to the transport, header included, is no longer than the
\* limit.
C15_ChunksFitLimit ==
    EachParagraphShort => \A k \in 1..Len(sent) : ChunkLen(sent[k]) <= Limit

\* C16: every ticket file written gets an id that no earlier write used, and
\* no write replaces a file that was there.
C16_CreationNeverOverwrites ==
    \A k \in 1..Len(creations) :
        /\ ~creations[k].replaced
        /\ \A j \in 1..(k - 1) : creations[j].ticket_id # creations[k].ticket_id

\* The webhook has taken the message in hand.
MessageHandled == pc # "receive"

\* C19: once the webhook handles a message, the rate-limit table has the
\* entry of the normalized sender, counting that message.
C19_InboundMessageCounted ==
    MessageHandled
    => /\ TenantPhone \in DOMAIN RATE_LIMIT
       /\ RATE_LIMIT[TenantPhone].count = 1
       /\ rate_log # <<>>

\* The calls before call k that admitted the same number within a window
\* before it.
AdmittedBefore(k) ==
    {j \in 1..(k - 1) :
        /\ rate_log[j].phone_number = rate_log[k].phone_number
        /\ ~rate_log[j].raised
        /\ rate_log[k].time - rate_log[j].time <= TIME_WINDOW}

\* C20: a check_rate_limit call raises only when the number was admitted
\* MAX_REQUESTS times already within the window.
C20_RaisesOnlyAfterMaxRequests ==
    \A k \in 1..Len(rate_log) :
        rate_log[k].raised => Cardinality(AdmittedBefore(k)) >= MAX_REQUESTS

\* C21: the confirmation of a created ticket says that images are attached
\* exactly when the stored ticket has at least one image path; when every
\* media fetch failed it says that none are attached.
C21_ImagesReportedIffStored ==
    TicketConfirmed
    => (response_text.images_attached
        <=> store[db_record.ticket_id].image_paths # <<>>)

====
